---- MODULE Spec2Model ----
(***************************************************************************)
(* Seckill ingestion pipeline of the product service: the Redis stream     *)
(* consumer (claim loop and reclaim loop), the stream handler, the order   *)
(* commit of the two usecases, the order table with its constraints, the   *)
(* MQ publisher and the ID generators.                                     *)
(***************************************************************************)
EXTENDS Integers, Sequences, FiniteSets, Bags, TLC

\* ------------------------------------------------------------------ bounds
MaxEntries == 2     \* entries ever appended to stream:orders
MaxClock == 1       \* milliseconds the wall clock may advance past the start
MaxFaults == 1      \* store, broker, ack failures and crashes, in total
MaxCalls == 1       \* direct (non-stream) commit calls beside the stream
MaxDirectCalls == 3 \* direct commit calls when only the direct path runs
NumProcs == 1       \* consumer processes of the group
BatchCount == 2     \* SeckillStreamServer.count (128 in NewSeckillStreamServer), scaled down
MaxMints == 2       \* Generate calls in a run of the ID generators
MaxMintTicks == 1   \* clock ticks in a run of the ID generators
SweepCount == 1     \* SeckillStreamServer.count when the sweep cursor is looked at
MaxRandCalls == 2      \* calls made on one generator
MaxAdminCalls == 3     \* calls of the seckill admin RPCs

\* --------------------------------------------------- int64 as 16-bit limbs
\* A Go int64 is <<l0, l1, l2, l3>>, least significant limb first, in two's
\* complement: the model checker's own integers are narrower than 64 bits.
Limb == 2^16

I64(n) == <<n % Limb, (n \div Limb) % Limb, 0, 0>>

Zero64 == <<0, 0, 0, 0>>

IsNeg64(x) == x[4] >= 32768

\* x * m + c modulo 2^64, for small m and c (Go's wrapping int64 arithmetic)
MulAdd64(x, m, c) ==
    LET t1 == x[1] * m + c
        t2 == x[2] * m + (t1 \div Limb)
        t3 == x[3] * m + (t2 \div Limb)
        t4 == x[4] * m + (t3 \div Limb)
    IN  <<t1 % Limb, t2 % Limb, t3 % Limb, t4 % Limb>>

\* -x modulo 2^64: the minimum int64 negates to itself
Neg64(x) ==
    LET t1 == (Limb - 1 - x[1]) + 1
        t2 == (Limb - 1 - x[2]) + (t1 \div Limb)
        t3 == (Limb - 1 - x[3]) + (t2 \div Limb)
        t4 == (Limb - 1 - x[4]) + (t3 \div Limb)
    IN  <<t1 % Limb, t2 % Limb, t3 % Limb, t4 % Limb>>

RECURSIVE Pow2(_)
Pow2(k) == IF k = 0 THEN 1 ELSE 2 * Pow2(k - 1)

RECURSIVE BitOr(_, _)
BitOr(a, b) ==
    IF a = 0 THEN b
    ELSE IF b = 0 THEN a
    ELSE (IF a % 2 = 1 \/ b % 2 = 1 THEN 1 ELSE 0) + 2 * BitOr(a \div 2, b \div 2)

RECURSIVE BitAnd(_, _)
BitAnd(a, b) ==
    IF a = 0 \/ b = 0 THEN 0
    ELSE (IF a % 2 = 1 /\ b % 2 = 1 THEN 1 ELSE 0) + 2 * BitAnd(a \div 2, b \div 2)

Or64(x, y) == [i \in 1..4 |-> BitOr(x[i], y[i])]

And64(x, y) == [i \in 1..4 |-> BitAnd(x[i], y[i])]

\* x << k modulo 2^64, 0 <= k < 64
Shl64(x, k) ==
    LET q == k \div 16
        r == k % 16
        at(i) == IF i >= 1 THEN x[i] ELSE 0
    IN  [i \in 1..4 |->
            ((at(i - q) * Pow2(r)) % Limb) + (at(i - q - 1) \div Pow2(16 - r))]

\* x >> k of the unsigned x (zeros come in from the left), 0 <= k < 64
Shr64(x, k) ==
    LET q == k \div 16
        r == k % 16
        at(i) == IF i <= 4 THEN x[i] ELSE 0
    IN  [i \in 1..4 |->
            (at(i + q) \div Pow2(r)) + ((at(i + q + 1) % Pow2(r)) * Pow2(16 - r))]

\* a <= b, both read as unsigned 64-bit numbers
LessEq64(a, b) ==
    LET RECURSIVE le(_)
        le(i) == IF i = 0 THEN TRUE
                 ELSE IF a[i] # b[i] THEN a[i] < b[i]
                 ELSE le(i - 1)
    IN  le(4)

\* x ^ y, limb by limb
Xor64(x, y) ==
    LET RECURSIVE BitXor(_, _)
        BitXor(a, b) ==
            IF a = 0 THEN b
            ELSE IF b = 0 THEN a
            ELSE ((a + b) % 2) + 2 * BitXor(a \div 2, b \div 2)
    IN  [i \in 1..4 |-> BitXor(x[i], y[i])]

\* x + y modulo 2^64
Add64(x, y) ==
    LET t1 == x[1] + y[1]
        t2 == x[2] + y[2] + (t1 \div Limb)
        t3 == x[3] + y[3] + (t2 \div Limb)
        t4 == x[4] + y[4] + (t3 \div Limb)
    IN  <<t1 % Limb, t2 % Limb, t3 % Limb, t4 % Limb>>

\* x - y modulo 2^64
Sub64(x, y) == Add64(x, Neg64(y))

\* x * y modulo 2^64, byte by byte with carries
Mul64(x, y) ==
    LET Bytes64(v) == [i \in 1..8 |-> IF i % 2 = 1 THEN v[(i + 1) \div 2] % 256
                                               ELSE v[i \div 2] \div 256]
        a == Bytes64(x)
        b == Bytes64(y)
        RECURSIVE col(_, _)
        col(k, i) == IF i > k THEN 0 ELSE a[i] * b[k + 1 - i] + col(k, i + 1)
        RECURSIVE digits(_, _)
        digits(k, carry) ==
            IF k > 8 THEN <<>>
            ELSE LET t == col(k, 1) + carry
                 IN  <<t % 256>> \o digits(k + 1, t \div 256)
        p == digits(1, 0)
    IN  [i \in 1..4 |-> p[2 * i - 1] + 256 * p[2 * i]]

\* x % d for unsigned x and d # 0: long division, one bit of x at a time
\* (the test on Len(rem) has the remainder computed before the next step)
Mod64(x, d) ==
    LET Bit64(v, k) == (v[(k \div 16) + 1] \div Pow2(k % 16)) % 2
        RECURSIVE step(_, _)
        step(k, rem) ==
            IF k < 0 \/ Len(rem) # 4 THEN rem
            ELSE LET top == IsNeg64(rem)
                     sh == MulAdd64(rem, 2, Bit64(x, k))
                 IN  step(k - 1, IF top \/ LessEq64(d, sh) THEN Sub64(sh, d) ELSE sh)
    IN  step(63, Zero64)

\* ------------------------------------------------------------ identifiers
Users == {"user-a", "user-b"}

\* xxhash.Sum64String(u) & 0x7FFF of the users of the model
UidHash(u) == CASE u = "user-a" -> 27087
                [] u = "user-b" -> 10150

\* EpochMsStart = 1768665600000, in decimal digits
EpochMsStartDigits == <<1, 7, 6, 8, 6, 6, 5, 6, 0, 0, 0, 0, 0>>

\* 0x3FFFFFFFFFFF
Mask46 == <<65535, 65535, 16383, 0>>

\* A fresh atomic.Int64 is made by every call, so Add(1) - 1 is always 0.
RandomBit3 ==
    LET p == 0
        n == (p + 1) - 1
    IN  BitAnd(n, 7)

\* instanceIDGenerator.Generate when nowMs - EpochMsStart is the int64 rel
InstanceIDGen64(u, rel) ==
    LET timeNow == Shl64(rel, 3)
        uid == Shl64(I64(UidHash(u)), 48)
    IN  Or64(Or64(uid, timeNow), I64(RandomBit3))

\* an order-ID generator whose time field counts down
OrderIDGenCountdown(u, rel) ==
    Or64(Shl64(And64(Neg64(rel), Mask46), 15), I64(UidHash(u)))

\* orderIDGenerator.Generate when nowMs - EpochMsStart is the int64 rel
OrderIDGen64(u, rel) ==
    LET relativeTime == And64(rel, Mask46)
        uidHash == I64(UidHash(u))
    IN  Or64(Shl64(relativeTime, 15), uidHash)

\* the same at the small clock readings of the pipeline
InstanceIDGen(u, rel) == InstanceIDGen64(u, I64(rel))

OrderIDGen(u, rel) == OrderIDGen64(u, I64(rel))

\* The identifiers the two generators mint for each user at each clock reading
\* of the model, computed once
InstanceIDAt == [u \in Users |-> [rel \in 0..MaxClock |-> InstanceIDGen(u, rel)]]

OrderIDAt == [u \in Users |-> [rel \in 0..MaxClock |-> OrderIDGen(u, rel)]]

\* ------------------------------------------------------------- stream IDs
\* Decimal digits of n >= 0, most significant first
RECURSIVE Digits(_)
Digits(n) == IF n < 10 THEN <<n>> ELSE Append(Digits(n \div 10), n % 10)

\* digits + n, digit by digit from the right
RECURSIVE AddDigits(_, _)
AddDigits(ds, n) ==
    IF Len(ds) = 0 THEN (IF n = 0 THEN <<>> ELSE Digits(n))
    ELSE LET t == ds[Len(ds)] + n
         IN  Append(AddDigits(SubSeq(ds, 1, Len(ds) - 1), t \div 10), t % 10)

Chars(ds) == [i \in 1..Len(ds) |-> 48 + ds[i]]

\* The entry ID "<ms>-<seq>" Redis assigns, as bytes; id = <<ms - EpochMsStart, seq>>
StreamIDString(id) ==
    Chars(AddDigits(EpochMsStartDigits, id[1])) \o <<45>> \o Chars(Digits(id[2]))

RECURSIVE PolyHash(_, _)
PolyHash(h, s) ==
    IF Len(s) = 0 THEN h ELSE PolyHash(MulAdd64(h, 31, Head(s)), Tail(s))

hashStreamID(s) ==
    LET hash == PolyHash(Zero64, s)
    IN  IF IsNeg64(hash) THEN Neg64(hash) ELSE hash

\* hashStreamID of every entry ID the stream of the model can assign, computed
\* once
StreamHashAt ==
    [ms \in 0..MaxClock |->
        [seq \in 0..MaxEntries |-> hashStreamID(StreamIDString(<<ms, seq>>))]]

\* ---------------------------------------------------------------- catalog
\* products joined with product_specs: product 1001 is on sale, 2002 is not,
\* and no other product exists. A nullable value is the empty set (nil, NULL)
\* or a singleton.
Catalog ==
    [p \in {1001, 2002} |->
        IF p = 1001
        THEN [Status |-> "ENABLED", Price |-> 9900, Name |-> "basic",
              Spec |-> {[CPU |-> 2, Memory |-> 4096]}]
        ELSE [Status |-> "DISABLED", Price |-> 5000, Name |-> "gpu",
              Spec |-> {[CPU |-> 8, Memory |-> 16384]}]]

ProductIDs == {1001, 2002, 3003}

Nil == "nil"

\* the sentinel biz declares for an unknown product
ErrProductNotFound == "product not found"

\* First(&productPo, productID), then First(&specPo, productPo.SpecID)
GetProductByID(pid) ==
    IF pid \in DOMAIN Catalog
    THEN [err |-> Nil, product |-> Catalog[pid]]
    ELSE [err |-> "record not found"]

\* ------------------------------------------------------------ order table
\* orders.order_id is the primary key
PKViolation(rows, po) == \E o \in rows : o.OrderID = po.OrderID

\* a table without the unique index
NoUniqueIndex(rows, po) == FALSE

\* unique index uk_product_req on (product_id, req_id)
UKViolation(rows, po) ==
    \E o \in rows : o.ProductID = po.ProductID /\ o.ReqID = po.ReqID

\* an insert that never fails
CreateAlways(rows, po) == Nil

\* db.Create(po): the error of the insert, Nil when the row is stored
CreateErr(rows, po) ==
    IF PKViolation(rows, po) THEN "duplicate key orders_pkey 23505"
    ELSE IF UKViolation(rows, po) THEN "duplicate key uk_product_req 23505"
    ELSE Nil

DuplicateKeyErrors ==
    {"duplicate key orders_pkey 23505", "duplicate key uk_product_req 23505"}

\* strings.Contains(errMsg, "23505") || "duplicate key" || "uq_orders_product_req"
isUniqueViolationError(err) == err \in DuplicateKeyErrors

\* ------------------------------------------------------------ the usecases
\* OrderUsecase.CreateOrder up to the insert: the error it returns before the
\* insert, or the row it is about to insert. t1, t2, t3 are the clock readings
\* of the three Generate calls and of time.Now().
CreateOrderPrep(pid, userID, reqIn, t1, t2, t3) ==
    LET reqID == IF reqIn = Zero64 THEN OrderIDAt[userID][t1] ELSE reqIn
        got == GetProductByID(pid)
    IN  IF got.err # Nil THEN [err |-> got.err]
        ELSE IF got.product.Status # "ENABLED" THEN [err |-> "ErrProductDisabled"]
        ELSE IF got.product.Spec = {} THEN [err |-> "product spec not found"]
        ELSE [err |-> Nil,
              order |-> [OrderID |-> OrderIDAt[userID][t2],
                         UserID |-> userID,
                         ProductID |-> pid,
                         ReqID |-> reqID,
                         Amount |-> got.product.Price,
                         InstanceID |-> InstanceIDAt[userID][t3],
                         Status |-> "PAID",
                         CreatedAt |-> t3,
                         PaidAt |-> {t3},
                         CompletedAt |-> {}],
              name |-> got.product.Name]

\* InstanceUsecase.CreateInstance up to the insert
CreateInstancePrep(pid, userID, reqIn, t1, t2, t3) ==
    LET reqID == IF reqIn = Zero64 THEN InstanceIDAt[userID][t1] ELSE reqIn
        got == GetProductByID(pid)
    IN  IF got.err # Nil THEN [err |-> got.err]
        ELSE IF got.product.Spec = {} THEN [err |-> "product spec not found"]
        ELSE [err |-> Nil,
              order |-> [OrderID |-> InstanceIDAt[userID][t2],
                         UserID |-> userID,
                         ProductID |-> pid,
                         ReqID |-> reqID,
                         Amount |-> got.product.Price,
                         InstanceID |-> InstanceIDAt[userID][t3],
                         Status |-> "PAID",
                         CreatedAt |-> t3,
                         PaidAt |-> {t3},
                         CompletedAt |-> {}],
              name |-> got.product.Name]

Prep(uc, pid, userID, reqIn, t1, t2, t3) ==
    IF uc = "order" THEN CreateOrderPrep(pid, userID, reqIn, t1, t2, t3)
    ELSE CreateInstancePrep(pid, userID, reqIn, t1, t2, t3)

\* an event that carries the order ID in place of the instance ID
EventOfOrderID(order, name) ==
    [InstanceID |-> order.OrderID, UserID |-> order.UserID, Name |-> name,
     ProductID |-> order.ProductID, ReqID |-> order.ReqID]

\* InstanceSpec sent to the resource domain; ProductID and ReqID are not on
\* the wire: they record which order the event was published for
EventOf(order, name) ==
    [InstanceID |-> order.InstanceID, UserID |-> order.UserID, Name |-> name,
     ProductID |-> order.ProductID, ReqID |-> order.ReqID]

\* a handler that reports success whatever the usecase returned
HandlerAlwaysNil(uc, err) == Nil

\* SeckillOrderService.HandleSeckillOrder: what the handler returns for the
\* usecase's error
HandlerResult(uc, err) ==
    IF uc = "order" /\ isUniqueViolationError(err) THEN Nil ELSE err

\* ------------------------------------------------------------------ state
Procs == 1..NumProcs

\* one claim loop and one reclaim loop per process
Loops == Procs \X {"claim", "reclaim"}

\* Values["uid"] of an entry: a user, the empty string, or no such field
NoField == "<no field>"

UidFields == Users \cup {"", NoField}

\* fmt.Sprint(msg.Values["uid"])
Sprint(v) == IF v = NoField THEN "<nil>" ELSE v

VARIABLES
    now,            \* wall clock, in ms since EpochMsStart
    stream,         \* stream:orders, a sequence of entries [id, uid, req]
    lastDelivered,  \* group g1: number of entries delivered by XREADGROUP ">"
    pel,            \* group g1: the pending (delivered, unacknowledged) entries
    orders,         \* the rows of table orders
    published,      \* bag of the events sent to the exchange
    usecase,        \* the usecase wired into the handler: "instance" or "order"
    srvProduct,     \* SeckillStreamServer.productID
    mqMode,         \* "healthy" (mqPublisher) or "noop" (noopMQPublisher)
    th,             \* per loop: [pc, batch, res]
    start,          \* per process: the reclaim loop's XAUTOCLAIM cursor
    api,            \* the last direct call: <<>> or <<[args, res]>>
    calls,          \* direct calls made
    faults,         \* failures still to come
    mq,             \* NewMQPublisher: its inputs, and what it returned
    mint,           \* the ID generators: key, clock, and the IDs minted so far
    srv,            \* one SeckillStreamServer's goroutines, and its Stop call
    aged,           \* the entries that have been idle for MinIdle since their last delivery
    hs,             \* hashStreamID: two entry IDs and the values derived so far
    sk,             \* the seckill keys of Redis, and the last reply of the admin RPCs
    rng             \* one XorShift64Star: its state and its last call

redisVars == <<stream, lastDelivered, pel>>
cfgVars == <<usecase, srvProduct, mqMode>>
apiVars == <<api, calls>>

\* the components checked on their own
sideVars == <<mq, mint, srv, aged, hs, sk, rng>>

\* the pipeline
pipeVars == <<now, stream, lastDelivered, pel, orders, published, usecase, srvProduct,
              mqMode, th, start, api, calls, faults>>

vars == <<pipeVars, sideVars>>

IdleLoop == [pc |-> "idle", batch |-> <<>>, res |-> Nil]

\* no entry, no order, no event, every loop at the top of its body
PipelineIdle ==
    /\ now = 0
    /\ stream = <<>>
    /\ lastDelivered = 0
    /\ pel = {}
    /\ orders = {}
    /\ published = EmptyBag
    /\ th = [l \in Loops |-> IdleLoop]
    /\ start = [p \in Procs |-> 0]
    /\ api = <<>>
    /\ calls = 0
    /\ faults = MaxFaults

\* the publisher once built
NoMQ == [cfg |-> "url", ok |-> {}, publisher |-> "none", err |-> Nil,
         conn |-> "none", channel |-> "none", cleaned |-> FALSE]

\* the generators before their first call
NoMint == [key |-> "user-a", clock |-> Zero64, ticks |-> 0, out |-> <<>>]

LoopKinds == {"claim", "reclaim"}

\* a SeckillStreamServer that NewSeckillStreamServer returned: no goroutine,
\* s.cancel == nil
NoSrv == [handler |-> "set", group |-> "created", startRes |-> "none",
          started |-> FALSE, cancelled |-> FALSE,
          loop |-> [k \in LoopKinds |-> "none"],
          stop |-> "none", expired |-> "no", done |-> FALSE, res |-> "none"]

\* ------------------------------------------------------- pkg/random
\* NewXorShift64Star(seed): 0x9e3779b97f4a7c15 stands in for the seed 0
NewXorShift64Star(seed) ==
    [s |-> IF seed = Zero64 THEN <<31765, 32586, 31161, 40503>> ELSE seed,
     call |-> <<>>, n |-> 0]

\* next64: the new state, and the value returned; the multiplier is
\* 2685821657736338717 = 0x2545F4914F6CDD1D
next64(s) ==
    LET StarMultiplier == <<56605, 20332, 62609, 9541>>
        x1 == Xor64(s, Shr64(s, 12))
        x2 == Xor64(x1, Shl64(x1, 25))
        x3 == Xor64(x2, Shr64(x2, 27))
    IN  [s |-> x3, val |-> Mul64(x3, StarMultiplier)]

\* a mask that keeps every bit
FullMask(bits) == <<65535, 65535, 65535, 65535>>

\* (uint64(1) << bits) - 1, for bits < 64
BitMask(bits) == Sub64(Shl64(I64(1), bits), I64(1))

\* RandNBits(bits): the new state, and the value returned
RandNBits(s, bits) ==
    IF bits = 0 THEN [s |-> s, val |-> Zero64]
    ELSE IF bits >= 64 THEN next64(s)
    ELSE [s |-> next64(s).s, val |-> And64(next64(s).val, BitMask(bits))]

\* a range that forgets to add min
RangeFromZero(min, width, r) == Mod64(r, width)

\* min + r % (max - min)
InRange(min, width, r) == Add64(min, Mod64(r, width))

\* RandRange(min, max): the new state, and the value returned
RandRange(s, min, max) ==
    IF LessEq64(max, min) THEN [s |-> s, val |-> min]
    ELSE [s |-> next64(s).s, val |-> InRange(min, Sub64(max, min), next64(s).val)]

\* the seeds of the tests and of the documentation, 1 and 2^64 - 1
Seeds == {Zero64, I64(12345), I64(1), <<65535, 65535, 65535, 65535>>}

\* bits is a uint8; 64 and 200 take the full-width branch
BitSamples == {0, 1, 3, 8, 16, 32, 63, 64, 200}

\* <<min, max>>: the ranges of the tests and the documentation, empty and
\* reversed ranges, and ranges at the top of uint64
RangeSamples ==
    {<<I64(10), I64(20)>>, <<Zero64, I64(8)>>, <<I64(5), I64(5)>>, <<I64(20), I64(10)>>,
     <<Zero64, <<65535, 65535, 65535, 65535>>>>,
     <<<<0, 0, 0, 32768>>, <<65535, 65535, 65535, 65535>>>>,
     <<<<65534, 65535, 65535, 65535>>, <<65535, 65535, 65535, 65535>>>>}

NoRng == NewXorShift64Star(Zero64)

\* ------------------------------------------------- the seckill keys of Redis
\* the decimal text of n >= 0, as go-redis writes an integer argument
FormatInt(n) == Chars(Digits(n))

\* strconv.ParseInt(s, 10, ...) of a decimal text without sign
ParseInt(s) ==
    LET RECURSIVE val(_, _)
        val(i, acc) == IF i > Len(s) THEN acc ELSE val(i + 1, acc * 10 + (s[i] - 48))
    IN  val(1, 0)

ErrInvalidStock == "invalid stock: must be greater than 0"
ErrNoActiveSeckill == "no active seckill"
RedisDown == "redis unavailable"

\* seckill:stock, req:seq, uid2req, stream:orders, seckill:product_id
KeyNames == {"stock", "reqSeq", "uid2req", "orders", "product"}

\* A string key is <<>> (no such key) or <<text>>; the hash uid2req is the set
\* of its fields; stream:orders is the entries after position base of the
\* history of entries, with its consumer group: the group's pending entries
\* and last delivered position.
\* DEL keys...; len is the length of the history of entries
Del(ks, names, len) ==
    LET NoStream == [base |-> len, group |-> FALSE, pel |-> {}, last |-> len]
        Absent(k) == IF k = "uid2req" THEN {} ELSE IF k = "orders" THEN NoStream ELSE <<>>
    IN  [k \in KeyNames |-> IF k \in names THEN Absent(k) ELSE ks[k]]

\* InitSeckill as the design document describes it: all five keys deleted
InitKeysAllFive(ks, productID, stock, len) ==
    [Del(ks, KeyNames, len) EXCEPT !["product"] = <<FormatInt(productID)>>,
                                   !["stock"] = <<FormatInt(stock)>>,
                                   !["reqSeq"] = <<FormatInt(0)>>]

\* an InitSeckill that forgets the stock
InitKeysNoStock(ks, productID, stock, len) ==
    [Del(ks, {"stock", "reqSeq", "uid2req", "product"}, len)
        EXCEPT !["product"] = <<FormatInt(productID)>>,
               !["reqSeq"] = <<FormatInt(0)>>]

\* the pipeline of seckillProductRepo.InitSeckill: four DEL, three SET
InitKeys(ks, productID, stock, len) ==
    [Del(ks, {"stock", "reqSeq", "uid2req", "product"}, len)
        EXCEPT !["product"] = <<FormatInt(productID)>>,
               !["stock"] = <<FormatInt(stock)>>,
               !["reqSeq"] = <<FormatInt(0)>>]

\* a ClearSeckill that leaves the current product
ClearKeysButProduct(ks, len) == Del(ks, KeyNames \ {"product"}, len)

\* seckillProductRepo.ClearSeckill: one DEL of the five keys
ClearKeys(ks, len) == Del(ks, KeyNames, len)

\* a check that lets a stock of 0 through
NegativeStock(stock) == stock < 0

\* SeckillUsecase.InitSeckill: stock <= 0
InvalidStock(stock) == stock <= 0

\* seckillProductRepo.GetCurrentProductID
GetCurrentProductID(ks, down) ==
    IF down THEN [err |-> RedisDown, id |-> 0]
    ELSE IF ks["product"] = <<>> THEN [err |-> ErrNoActiveSeckill, id |-> 0]
    ELSE [err |-> Nil, id |-> ParseInt(ks["product"][1])]

\* seckillProductRepo.GetStock
GetStock(ks, down) ==
    IF down THEN [err |-> RedisDown, stock |-> 0]
    ELSE IF ks["stock"] = <<>> THEN [err |-> Nil, stock |-> 0]
    ELSE [err |-> Nil, stock |-> ParseInt(ks["stock"][1])]

\* SeckillUsecase.GetCurrentSeckill; down is "", "product" or "stock"
GetCurrentSeckill(ks, down) ==
    LET p == GetCurrentProductID(ks, down = "product")
        s == GetStock(ks, down = "stock")
    IN  IF p.err # Nil THEN [err |-> p.err, id |-> 0, stock |-> 0]
        ELSE IF s.err # Nil THEN [err |-> s.err, id |-> 0, stock |-> 0]
        ELSE [err |-> Nil, id |-> p.id, stock |-> s.stock]

\* SeckillService.GetCurrentSeckill, from what the usecase returned
GetCurrentSeckillReply(got) ==
    IF got.err = ErrNoActiveSeckill
    THEN [err |-> Nil, reply |-> <<[ProductId |-> 0, Stock |-> 0, Active |-> FALSE]>>]
    ELSE IF got.err # Nil THEN [err |-> got.err, reply |-> <<>>]
    ELSE [err |-> Nil,
          reply |-> <<[ProductId |-> got.id, Stock |-> got.stock, Active |-> TRUE]>>]

\* SeckillService.InitSeckill and ClearSeckill, from what the usecase returned
AdminReply(uerr, done) ==
    [err |-> Nil,
     reply |-> <<[Success |-> uerr = Nil, Message |-> IF uerr = Nil THEN done ELSE uerr]>>]

\* No seckill key exists in Redis and no admin RPC was called. keys is the
\* seckill keys but stream:orders, base and group are the stream key; rpc is
\* the last admin call with what it returned; inited, cleared and wiped
\* remember what the admin calls did.
NoSeckill ==
    [keys |-> [product |-> <<>>, stock |-> <<>>, reqSeq |-> <<>>, uid2req |-> {}],
     base |-> 0, group |-> FALSE,
     rpc |-> <<>>, calls |-> 0,
     inited |-> <<>>, cleared |-> FALSE, wiped |-> FALSE]

\* no entry ID has been handled
NoHash == [ids |-> <<>>, out |-> <<>>]

Init ==
    /\ PipelineIdle
    /\ usecase \in {"instance", "order"}
    /\ srvProduct \in DOMAIN Catalog
    /\ mqMode \in {"healthy", "noop"}
    /\ mq = NoMQ
    /\ mint = NoMint
    /\ srv = NoSrv
    /\ aged = {}
    /\ sk = NoSeckill
    /\ rng = NoRng
    /\ hs = NoHash

\* one wiring of the pipeline, while a component is looked at on its own
PipelineAtRest ==
    /\ PipelineIdle
    /\ usecase = "instance"
    /\ srvProduct = 1001
    /\ mqMode = "healthy"

\* ----------------------------------------------------------- environment
Tick ==
    /\ now < MaxClock
    /\ now' = now + 1
    /\ UNCHANGED <<redisVars, orders, published, cfgVars, sideVars, th, start, apiVars, faults>>

\* XADD stream:orders * : the ID is <ms>-<seq>, larger than every earlier one
NextID ==
    IF Len(stream) > 0 /\ stream[Len(stream)].id[1] >= now
    THEN <<stream[Len(stream)].id[1], stream[Len(stream)].id[2] + 1>>
    ELSE <<now, 0>>

ReqSeq == Cardinality({stream[i].req : i \in 1..Len(stream)})

\* The admission script: a user buys at most once (uid2req), req = INCR req:seq
Admit(uid) ==
    /\ Len(stream) < MaxEntries
    /\ \A i \in 1..Len(stream) : uid \in Users => stream[i].uid # uid
    /\ stream' = Append(stream, [id |-> NextID, uid |-> uid, req |-> ReqSeq + 1])
    /\ UNCHANGED <<now, lastDelivered, pel, orders, published, cfgVars, sideVars, th, start,
                   apiVars, faults>>

\* At-least-once production: one purchase is appended a second time
AdmitAgain(i) ==
    /\ Len(stream) < MaxEntries
    /\ i \in 1..Len(stream)
    /\ stream' = Append(stream, [stream[i] EXCEPT !.id = NextID])
    /\ UNCHANGED <<now, lastDelivered, pel, orders, published, cfgVars, sideVars, th, start,
                   apiVars, faults>>

\* ------------------------------------------------------- the stream loops
Min(a, b) == IF a < b THEN a ELSE b

Acked(e) == e <= lastDelivered /\ e \notin pel

\* the loop goes on to the next message of the batch, or to its next round
NextEntry(t) ==
    [pc |-> IF Len(t.batch) > 1 THEN "handle" ELSE "idle",
     batch |-> Tail(t.batch), res |-> Nil]

\* a loop that goes on to XAck whatever the handler returned
AckAlways(t, res) == [t EXCEPT !.pc = "ack", !.res = res]

\* a loop that gives up its batch when the handler fails
ReturnOnError(t, res) ==
    IF res # Nil THEN IdleLoop ELSE [t EXCEPT !.pc = "ack", !.res = res]

\* consumeLoop / reclaimLoop after HandleSeckillOrder returned res:
\* `continue` on an error, XAck otherwise
AfterHandler(t, res) ==
    IF res # Nil THEN NextEntry(t) ELSE [t EXCEPT !.pc = "ack", !.res = res]

\* the uid test of both loops
MissingUid(uid) == uid = "" \/ uid = "<nil>"

\* reqID := hashStreamID(msg.ID) of entry e
EntryReq(e) == StreamHashAt[stream[e].id[1]][stream[e].id[2]]

SetToSeq(S) ==
    LET RECURSIVE build(_)
        build(T) == IF T = {} THEN <<>>
                    ELSE LET m == CHOOSE x \in T : \A y \in T : x <= y
                         IN  <<m>> \o build(T \ {m})
    IN  build(S)

\* XReadGroup(">", Count n): the next undelivered entries become pending
XReadGroupN(p, n) ==
    LET l == <<p, "claim">>
        new == (lastDelivered + 1)..Min(Len(stream), lastDelivered + n)
    IN  /\ th[l].pc = "idle"
        /\ new # {}
        /\ pel' = pel \cup new
        /\ lastDelivered' = lastDelivered + Cardinality(new)
        /\ th' = [th EXCEPT ![l] = [IdleLoop EXCEPT !.pc = "handle",
                                                     !.batch = SetToSeq(new)]]
        /\ UNCHANGED <<now, stream, orders, published, cfgVars, start, apiVars, faults>>

XReadGroup(p) == XReadGroupN(p, BatchCount) /\ UNCHANGED sideVars

\* XAUTOCLAIM from cursor c with Count n, when `idle` are the pending entries
\* that have been idle for MinIdle: the first n of them at or after c
AutoClaimedN(c, idle, n) ==
    LET from == {e \in idle : e >= c}
    IN  {e \in from : Cardinality({f \in from : f < e}) < n}

\* a scan that jumps to the end of the pending list after every claim
CursorToEnd(c, idle, n) == Len(stream) + 1

\* its next cursor: the pending entry after the last one examined, 0 for "0-0"
AutoClaimNextN(c, idle, n) ==
    LET got == AutoClaimedN(c, idle, n)
        rest == IF Cardinality(got) < n THEN {}
                ELSE {e \in pel : \A g \in got : e > g}
    IN  IF rest = {} THEN 0 ELSE CHOOSE e \in rest : \A f \in rest : e <= f

AutoClaimed(c, idle) == AutoClaimedN(c, idle, BatchCount)

AutoClaimNext(c, idle) == AutoClaimNextN(c, idle, BatchCount)

\* one round of reclaimLoop up to its `for _, msg := range msgs`
XAutoClaimN(p, idle, n) ==
    LET l == <<p, "reclaim">>
        msgs == AutoClaimedN(start[p], idle, n)
        next == AutoClaimNextN(start[p], idle, n)
    IN  /\ th[l].pc = "idle"
        /\ idle \subseteq pel
        /\ msgs # {} \/ start[p] # 0
        /\ start' = [start EXCEPT ![p] = IF msgs = {} THEN 0 ELSE next]
        /\ th' = [th EXCEPT ![l] =
                    IF msgs = {} THEN IdleLoop
                    ELSE [IdleLoop EXCEPT !.pc = "handle", !.batch = SetToSeq(msgs)]]
        /\ UNCHANGED <<now, redisVars, orders, published, cfgVars, apiVars, faults>>

XAutoClaim(p, idle) == XAutoClaimN(p, idle, BatchCount) /\ UNCHANGED sideVars

\* What one call of the usecase does to the store and the broker, with the
\* error it returns: `down` is "" or the step that fails ("store", "broker")
Commit(pid, userID, reqIn, down) ==
    LET prep == Prep(usecase, pid, userID, reqIn, now, now, now)
        err == IF down = "store" THEN "store unavailable"
               ELSE IF prep.err # Nil THEN prep.err
               ELSE CreateErr(orders, prep.order)
    IN  IF err # Nil
        THEN [err |-> err, rows |-> orders, events |-> published, order |-> {}]
        ELSE [err |-> IF down = "broker" THEN "publish failed" ELSE Nil,
              rows |-> orders \cup {prep.order},
              events |-> IF mqMode = "healthy" /\ down # "broker"
                         THEN published (+) SetToBag({EventOf(prep.order, prep.name)})
                         ELSE published,
              order |-> {prep.order}]

\* the failures a call may meet: none, the store, or the healthy publisher
Downs == {"", "store", "broker"}

\* a no-op publisher that can fail like the real one
AnyPublisherFails(down) == down # "" => faults > 0

CanFail(down) ==
    /\ down # "" => faults > 0
    /\ down = "broker" => mqMode = "healthy"

\* The loop body for the first message of the batch: the uid test, then
\* HandleSeckillOrder
Handle(l) ==
    /\ th[l].pc = "handle"
    /\ LET e == Head(th[l].batch)
           uid == Sprint(stream[e].uid)
           reqID == EntryReq(e)
       IN  IF MissingUid(uid)
           THEN /\ th' = [th EXCEPT ![l] = NextEntry(th[l])]
                /\ UNCHANGED <<orders, published, faults>>
           ELSE \E down \in Downs :
                LET c == Commit(srvProduct, uid, reqID, down)
                IN  /\ CanFail(down)
                    /\ down = "broker" => c.order # {}
                    /\ faults' = IF down # "" THEN faults - 1 ELSE faults
                    /\ orders' = c.rows
                    /\ published' = c.events
                    /\ th' = [th EXCEPT ![l] =
                                AfterHandler(th[l], HandlerResult(usecase, c.err))]
    /\ UNCHANGED <<now, redisVars, cfgVars, sideVars, start, apiVars>>

\* XAck of the message the handler succeeded on; its error is only logged
Ack(l) ==
    /\ th[l].pc = "ack"
    /\ \E down \in BOOLEAN :
         /\ down => faults > 0
         /\ faults' = IF down THEN faults - 1 ELSE faults
         /\ pel' = IF down THEN pel ELSE pel \ {Head(th[l].batch)}
    /\ th' = [th EXCEPT ![l] = NextEntry(th[l])]
    /\ UNCHANGED <<now, stream, lastDelivered, orders, published, cfgVars, sideVars, start,
                   apiVars>>

\* The process dies and is started again: both loops start over
Crash(p) ==
    /\ faults > 0
    /\ \E k \in {"claim", "reclaim"} : th[<<p, k>>].pc # "idle"
    /\ faults' = faults - 1
    /\ th' = [l \in Loops |-> IF l[1] = p THEN IdleLoop ELSE th[l]]
    /\ start' = [start EXCEPT ![p] = 0]
    /\ UNCHANGED <<now, redisVars, orders, published, cfgVars, sideVars, apiVars>>

\* The process dies inside HandleSeckillOrder, after the insert and before the
\* publish
CrashInHandler(l) ==
    /\ faults > 0
    /\ th[l].pc = "handle"
    /\ LET e == Head(th[l].batch)
           uid == Sprint(stream[e].uid)
           reqID == EntryReq(e)
       IN  /\ ~MissingUid(uid)
           /\ LET c == Commit(srvProduct, uid, reqID, "broker")
               IN  /\ c.order # {}
                   /\ orders' = c.rows
    /\ faults' = faults - 1
    /\ th' = [k \in Loops |-> IF k[1] = l[1] THEN IdleLoop ELSE th[k]]
    /\ start' = [start EXCEPT ![l[1]] = 0]
    /\ UNCHANGED <<now, redisVars, published, cfgVars, sideVars, apiVars>>

\* -------------------------------------------------------- the direct path
ApiUsers == {"user-a"}

\* req_id 0 asks the usecase to generate one; 7 is one a caller supplies
ApiReqs == {Zero64, I64(7)}

\* what the caller gets back: OrderUsecase.CreateOrder returns the two IDs and
\* the error, InstanceUsecase.CreateInstance the error alone
Returned(c) ==
    IF c.err = Nil /\ usecase = "order"
    THEN LET o == CHOOSE x \in c.order : TRUE
         IN  [err |-> Nil, OrderID |-> o.OrderID, InstanceID |-> o.InstanceID]
    ELSE [err |-> c.err, OrderID |-> Zero64, InstanceID |-> Zero64]

\* CreateOrder / CreateInstance called outside the stream
ApiCall(pid, userID, reqIn) ==
    /\ calls' = calls + 1
    /\ \E down \in Downs :
         LET c == Commit(pid, userID, reqIn, down)
         IN  /\ CanFail(down)
             /\ down = "broker" => c.order # {}
             /\ faults' = IF down # "" THEN faults - 1 ELSE faults
             /\ orders' = c.rows
             /\ published' = c.events
             /\ api' = <<[args |-> <<pid, userID, reqIn>>, res |-> Returned(c)]>>
    /\ UNCHANGED <<now, redisVars, cfgVars, sideVars, th, start>>

\* ------------------------------------------------------ the specifications
\* the consumer processes
ConsumerNext ==
    \/ \E p \in Procs : XReadGroup(p)
    \/ \E p \in Procs : \E idle \in SUBSET pel : XAutoClaim(p, idle)
    \/ \E l \in Loops : Handle(l)
    \/ \E l \in Loops : Ack(l)
    \/ \E p \in Procs : Crash(p)
    \/ \E l \in Loops : CrashInHandler(l)

\* the producer
ProducerNext ==
    \/ \E uid \in UidFields : Admit(uid)
    \/ \E i \in 1..MaxEntries : AdmitAgain(i)

\* direct-purchase callers
DirectCalls(max) ==
    \E pid \in ProductIDs, u \in ApiUsers, r \in ApiReqs :
        calls < max /\ ApiCall(pid, u, r)

Next == Tick \/ ProducerNext \/ ConsumerNext \/ DirectCalls(MaxCalls)

Spec == Init /\ [][Next]_vars

\* the direct path alone
DirectNext == Tick \/ DirectCalls(MaxDirectCalls)

DirectSpec == Init /\ [][DirectNext]_vars

\* ------------------------------------------------------- the idle sweep
\* entry e has now been pending for MinIdle (claimIdle, 10 s) since it was
\* last delivered or claimed
Age(e) ==
    /\ e \in pel
    /\ e \notin aged
    /\ aged' = aged \cup {e}
    /\ UNCHANGED <<pipeVars, mq, mint, srv, hs, sk, rng>>

\* one round of reclaimLoop: XAUTOCLAIM claims idle entries, whose idle time
\* starts again
SweepClaim(p) ==
    /\ XAutoClaimN(p, aged \cap pel, SweepCount)
    /\ aged' = aged \ AutoClaimedN(start[p], aged \cap pel, SweepCount)
    /\ UNCHANGED <<mq, mint, srv, hs, sk, rng>>

\* one XReadGroup of consumeLoop, with the same Count
SweepRead(p) == XReadGroupN(p, SweepCount) /\ UNCHANGED sideVars

\* the consumers with a Count below the number of pending entries, so that the
\* XAUTOCLAIM cursor moves; all within one millisecond of the ID clock
SweepNext ==
    \/ \E uid \in UidFields : Admit(uid)
    \/ \E e \in 1..MaxEntries : Age(e)
    \/ \E p \in Procs : SweepRead(p)
    \/ \E p \in Procs : SweepClaim(p)
    \/ \E l \in Loops : Handle(l)
    \/ \E l \in Loops : Ack(l)
    \/ \E p \in Procs : Crash(p)
    \/ \E l \in Loops : CrashInHandler(l)

\* both loops of every process keep running (the reclaim loop every 2 s)
SweepFairness ==
    /\ \A p \in Procs : WF_vars(SweepRead(p)) /\ WF_vars(SweepClaim(p))
    /\ \A l \in Loops : WF_vars(Handle(l)) /\ WF_vars(Ack(l))

SweepSpec == Init /\ [][SweepNext]_vars /\ SweepFairness

\* ------------------------------------------------------- order status
\* the statuses of an order
StatusValues == {"PAID", "COMPLETED", "CANCELLED"}

\* orderRepo.UpdateStatus: Updates(status [, paid_at] [, completed_at]) on the
\* rows Where order_id = orderID; no row matching is not an error
UpdateStatus(orderID, status) ==
    /\ orders' = {IF o.OrderID # orderID THEN o
                  ELSE [o EXCEPT !.Status = status,
                                 !.PaidAt = IF status = "PAID" THEN {now} ELSE @,
                                 !.CompletedAt = IF status = "COMPLETED" THEN {now} ELSE @]
                  : o \in orders}
    /\ orders' # orders
    /\ UNCHANGED <<now, redisVars, published, cfgVars, sideVars, th, start, apiVars, faults>>

\* orders are created by direct calls and their status is updated
StatusNext ==
    \/ Tick
    \/ DirectCalls(MaxCalls)
    \/ \E o \in orders : \E status \in StatusValues : UpdateStatus(o.OrderID, status)

StatusSpec == Init /\ [][StatusNext]_vars

\* ------------------------------------------------ publisher construction
\* the configuration handed to NewMQPublisher: c == nil, c.Rabbitmq == nil,
\* c.Rabbitmq.Url == "", or a URL
Configs == {"nil", "no rabbitmq", "empty url", "url"}

\* amqp.Dial, conn.Channel, ExchangeDeclare, QueueDeclare, QueueBind
SetupSteps == <<"dial", "channel", "exchange", "queue", "bind">>

\* a constructor that tests the error of no step
NoStepFails(ok) == 0

\* the first step that fails when the broker lets the steps of `ok` succeed,
\* 0 when none fails
FirstFailure(ok) ==
    LET bad == {i \in 1..Len(SetupSteps) : SetupSteps[i] \notin ok}
    IN  IF bad = {} THEN 0 ELSE CHOOSE i \in bad : \A j \in bad : i <= j

\* what NewMQPublisher returns, and the connection and channel it leaves
Construct(cfg, ok) ==
    LET failed == FirstFailure(ok)
    IN  IF cfg # "url" \/ failed = 1
        THEN [publisher |-> "noop", err |-> Nil, conn |-> "none", channel |-> "none"]
        ELSE IF failed = 2
        THEN [publisher |-> "noop", err |-> Nil, conn |-> "closed", channel |-> "none"]
        ELSE IF failed > 2
        THEN [publisher |-> "noop", err |-> Nil, conn |-> "closed", channel |-> "closed"]
        ELSE [publisher |-> "real", err |-> Nil, conn |-> "open", channel |-> "open"]

NewMQPublisher ==
    /\ mq.publisher = "none"
    /\ LET r == Construct(mq.cfg, mq.ok)
       IN  mq' = [mq EXCEPT !.publisher = r.publisher, !.err = r.err,
                            !.conn = r.conn, !.channel = r.channel]
    /\ UNCHANGED <<pipeVars, mint, srv, aged, hs, sk, rng>>

\* the cleanup function NewMQPublisher returned: func() {} with the no-op
\* publisher, ch.Close and conn.Close with the real one
Cleanup ==
    /\ mq.publisher # "none"
    /\ ~mq.cleaned
    /\ mq' = [mq EXCEPT !.cleaned = TRUE,
                        !.conn = IF mq.publisher = "real" THEN "closed" ELSE @,
                        !.channel = IF mq.publisher = "real" THEN "closed" ELSE @]
    /\ UNCHANGED <<pipeVars, mint, srv, aged, hs, sk, rng>>

\* every configuration, and every set of steps the broker lets succeed
PublisherInit ==
    /\ PipelineAtRest
    /\ mq \in {[NoMQ EXCEPT !.cfg = c, !.ok = k] :
                  c \in Configs, k \in SUBSET {SetupSteps[i] : i \in 1..Len(SetupSteps)}}
    /\ mint = NoMint
    /\ srv = NoSrv
    /\ aged = {}
    /\ sk = NoSeckill
    /\ rng = NoRng
    /\ hs = NoHash

PublisherNext == NewMQPublisher \/ Cleanup

PublisherSpec == PublisherInit /\ [][PublisherNext]_vars

\* ------------------------------------------------------ the ID generators
\* nowMs - EpochMsStart as an int64: 0, 1, 2^45 - 2, 2^46 - 2, 2^46 - 1, 2^46,
\* 2^60 - 1, and -1 (a clock one ms before the epoch)
ClockSamples ==
    {Zero64, I64(1), <<65534, 65535, 8191, 0>>, <<65534, 65535, 16383, 0>>, Mask46,
     Shl64(I64(1), 46), <<65535, 65535, 65535, 4095>>, Neg64(I64(1))}

Generators == {"order", "instance"}

\* one Generate call of generator gen, at the current clock; `at` keeps the
\* clock reading of the call
Mint(gen) ==
    /\ Len(mint.out) < MaxMints
    /\ mint' = [mint EXCEPT !.out = Append(@,
                  [gen |-> gen,
                   at |-> mint.clock,
                   id |-> IF gen = "instance" THEN InstanceIDGen64(mint.key, mint.clock)
                          ELSE OrderIDGen64(mint.key, mint.clock)])]
    /\ UNCHANGED <<pipeVars, mq, srv, aged, hs, sk, rng>>

\* a millisecond passes
MintTick ==
    /\ mint.ticks < MaxMintTicks
    /\ mint' = [mint EXCEPT !.clock = MulAdd64(@, 1, 1), !.ticks = @ + 1]
    /\ UNCHANGED <<pipeVars, mq, srv, aged, hs, sk, rng>>

MintInit ==
    /\ PipelineAtRest
    /\ mq = NoMQ
    /\ srv = NoSrv
    /\ aged = {}
    /\ sk = NoSeckill
    /\ rng = NoRng
    /\ hs = NoHash
    /\ mint \in {[NoMint EXCEPT !.key = u, !.clock = c] : u \in Users, c \in ClockSamples}

MintNext == MintTick \/ \E gen \in Generators : Mint(gen)

MintSpec == MintInit /\ [][MintNext]_vars

\* ------------------------------------------- requestSequence of an entry
\* "<ms>-<seq>" as bytes, from the decimal digits of ms and of seq
EntryIDString(id) == Chars(id[1]) \o <<45>> \o Chars(id[2])

\* Entry IDs as Redis writes them (two decimal numbers, no leading zero): the
\* IDs of the first milliseconds of the epoch, the smallest ID of a stream,
\* two IDs of 2026 and 2028, and an ID of 2017 with an eight-digit sequence
\* number.
SampleIDs ==
    {<<EpochMsStartDigits, <<0>>>>,
     <<EpochMsStartDigits, <<1>>>>,
     <<EpochMsStartDigits, <<1, 0>>>>,
     <<AddDigits(EpochMsStartDigits, 1), <<0>>>>,
     <<<<0>>, <<1>>>>,
     <<AddDigits(EpochMsStartDigits, 1), <<1>>>>,
     <<<<1, 7, 7, 0, 1, 7, 2, 0, 0, 0, 7, 0, 8>>, <<9, 0, 0, 2>>>>,
     <<<<1, 8, 4, 3, 0, 0, 0, 1, 2, 4, 0, 4, 0>>, <<1, 9, 8, 0>>>>,
     <<<<1, 5, 0, 3, 0, 3, 2, 3, 4, 5, 7, 3, 6>>, <<6, 0, 4, 9, 1, 2, 3, 4>>>>}

\* HandleSeckillOrder derives the requestSequence of the next entry:
\* reqID := hashStreamID(streamID)
HashEntry ==
    /\ Len(hs.out) < Len(hs.ids)
    /\ hs' = [hs EXCEPT !.out =
                Append(@, hashStreamID(EntryIDString(hs.ids[Len(hs.out) + 1])))]
    /\ UNCHANGED <<pipeVars, mq, mint, srv, aged, sk, rng>>

\* two entries of the stream, in the order they are handled
HashInit ==
    /\ PipelineAtRest
    /\ mq = NoMQ
    /\ mint = NoMint
    /\ srv = NoSrv
    /\ aged = {}
    /\ sk = NoSeckill
    /\ rng = NoRng
    /\ hs \in {[ids |-> <<a, b>>, out |-> <<>>] : a \in SampleIDs, b \in SampleIDs}

HashNext == HashEntry

HashSpec == HashInit /\ [][HashNext]_vars

\* ------------------------------------------------- pkg/random, called
CallRandNBits(bits) ==
    /\ rng.n < MaxRandCalls
    /\ LET r == RandNBits(rng.s, bits)
       IN  rng' = [s |-> r.s, n |-> rng.n + 1,
                   call |-> <<[op |-> "RandNBits", args |-> <<bits>>, ret |-> r.val]>>]
    /\ UNCHANGED <<pipeVars, mq, mint, srv, aged, hs, sk>>

CallRandRange(min, max) ==
    /\ rng.n < MaxRandCalls
    /\ LET r == RandRange(rng.s, min, max)
       IN  rng' = [s |-> r.s, n |-> rng.n + 1,
                   call |-> <<[op |-> "RandRange", args |-> <<min, max>>, ret |-> r.val]>>]
    /\ UNCHANGED <<pipeVars, mq, mint, srv, aged, hs, sk>>

RandomInit ==
    /\ PipelineAtRest
    /\ mq = NoMQ
    /\ mint = NoMint
    /\ srv = NoSrv
    /\ aged = {}
    /\ hs = NoHash
    /\ sk = NoSeckill
    /\ rng \in {NewXorShift64Star(seed) : seed \in Seeds}

RandomNext ==
    \/ \E bits \in BitSamples : CallRandNBits(bits)
    \/ \E r \in RangeSamples : CallRandRange(r[1], r[2])

RandomSpec == RandomInit /\ [][RandomNext]_vars

\* ------------------------------------------------ seckill admin and purchase
\* the five keys as Redis holds them
Keys ==
    [k \in KeyNames |->
        IF k = "orders"
        THEN [base |-> sk.base, group |-> sk.group, pel |-> pel, last |-> lastDelivered]
        ELSE sk.keys[k]]

\* Redis holds ks after an admin call, which returned rpc
AdminDone(ks, rpc, inited, cleared, wiped) ==
    /\ sk' = [keys |-> [k \in KeyNames \ {"orders"} |-> ks[k]],
              base |-> ks["orders"].base, group |-> ks["orders"].group,
              rpc |-> <<rpc>>, calls |-> sk.calls + 1,
              inited |-> inited, cleared |-> cleared, wiped |-> wiped]
    /\ pel' = ks["orders"].pel
    /\ lastDelivered' = ks["orders"].last

\* The InitSeckill RPC. down = "exec": the pipeline is not executed;
\* down = "exists": the pipeline is executed and the EXISTS after it fails.
InitSeckill(productID, stock, down) ==
    /\ sk.calls < MaxAdminCalls
    /\ down # "" => faults > 0 /\ ~InvalidStock(stock)
    /\ LET wrote == ~InvalidStock(stock) /\ down # "exec"
           uerr == IF InvalidStock(stock) THEN ErrInvalidStock
                   ELSE IF down # "" THEN RedisDown
                   ELSE Nil
       IN  AdminDone(IF wrote THEN InitKeys(Keys, productID, stock, Len(stream)) ELSE Keys,
                     [op |-> "InitSeckill", args |-> <<productID, stock>>, uerr |-> uerr,
                      ret |-> AdminReply(uerr, "seckill initialized")],
                     IF uerr = Nil THEN <<productID, stock>>
                     ELSE IF wrote THEN <<>> ELSE sk.inited,
                     IF uerr = Nil THEN FALSE ELSE sk.cleared,
                     IF wrote THEN FALSE ELSE sk.wiped)
    /\ faults' = IF down # "" THEN faults - 1 ELSE faults
    /\ UNCHANGED <<now, stream, orders, published, cfgVars, th, start, apiVars,
                   mq, mint, srv, aged, hs, rng>>

\* The GetCurrentSeckill RPC. down names the read that fails, if one does.
GetCurrentSeckillCall(down) ==
    /\ sk.calls < MaxAdminCalls
    /\ down # "" => faults > 0
    /\ LET got == GetCurrentSeckill(Keys, down)
       IN  AdminDone(Keys,
                     [op |-> "GetCurrentSeckill", args |-> <<>>, uerr |-> got.err,
                      ret |-> GetCurrentSeckillReply(got)],
                     sk.inited, sk.cleared, sk.wiped)
    /\ faults' = IF down # "" THEN faults - 1 ELSE faults
    /\ UNCHANGED <<now, stream, orders, published, cfgVars, th, start, apiVars,
                   mq, mint, srv, aged, hs, rng>>

\* The ClearSeckill RPC. down: the DEL fails.
ClearSeckill(down) ==
    /\ sk.calls < MaxAdminCalls
    /\ down => faults > 0
    /\ LET uerr == IF down THEN RedisDown ELSE Nil
       IN  AdminDone(IF down THEN Keys ELSE ClearKeys(Keys, Len(stream)),
                     [op |-> "ClearSeckill", args |-> <<>>, uerr |-> uerr,
                      ret |-> AdminReply(uerr, "seckill cleared")],
                     IF down THEN sk.inited ELSE <<>>,
                     IF down THEN sk.cleared ELSE TRUE,
                     IF down THEN sk.wiped ELSE TRUE)
    /\ faults' = IF down THEN faults - 1 ELSE faults
    /\ UNCHANGED <<now, stream, orders, published, cfgVars, th, start, apiVars,
                   mq, mint, srv, aged, hs, rng>>

\* goods.lua for a user who has not bought, with stock left: DECRBY stock 1,
\* INCR req_seq, HSET uid2req, XADD * (the ID follows the entries that are
\* left in stream:orders)
Purchase(uid) ==
    /\ Len(stream) < MaxEntries
    /\ uid \notin sk.keys["uid2req"]
    /\ sk.keys["stock"] # <<>>
    /\ ParseInt(sk.keys["stock"][1]) > 0
    /\ LET req == IF sk.keys["reqSeq"] = <<>> THEN 1
                  ELSE ParseInt(sk.keys["reqSeq"][1]) + 1
           LiveNextID ==
               IF Len(stream) > sk.base /\ stream[Len(stream)].id[1] >= now
               THEN <<stream[Len(stream)].id[1], stream[Len(stream)].id[2] + 1>>
               ELSE <<now, 0>>
       IN  /\ sk' = [sk EXCEPT
                       !.keys["stock"] = <<FormatInt(ParseInt(sk.keys["stock"][1]) - 1)>>,
                       !.keys["reqSeq"] = <<FormatInt(req)>>,
                       !.keys["uid2req"] = @ \cup {uid},
                       !.inited = <<>>]
           /\ stream' = Append(stream, [id |-> LiveNextID, uid |-> uid, req |-> req])
    /\ UNCHANGED <<now, lastDelivered, pel, orders, published, cfgVars, th, start,
                   apiVars, faults, mq, mint, srv, aged, hs, rng>>

\* XREADGROUP while the consumer group exists
ReadGroup(p) == sk.group /\ XReadGroup(p)

\* XREADGROUP after stream:orders was deleted: NOGROUP, which the loop logs
\* before it sleeps and reads again
ReadNoGroup(p) ==
    /\ ~sk.group
    /\ th[<<p, "claim">>].pc = "idle"
    /\ th' = [th EXCEPT ![<<p, "claim">>].res = "NOGROUP"]
    /\ UNCHANGED <<now, redisVars, orders, published, cfgVars, sideVars, start, apiVars,
                   faults>>

InitStock == 2

\* The stream servers were built and started while product 1001 was the
\* current seckill product: Start has created the consumer group.
AdminInit ==
    /\ PipelineAtRest
    /\ mq = NoMQ
    /\ mint = NoMint
    /\ srv = NoSrv
    /\ aged = {}
    /\ hs = NoHash
    /\ rng = NoRng
    /\ sk = [NoSeckill EXCEPT
               !.keys = [k \in KeyNames \ {"orders"} |->
                            InitKeys(Del([j \in KeyNames |-> <<>>], KeyNames, 0),
                                     srvProduct, InitStock, 0)[k]],
               !.group = TRUE,
               !.inited = <<srvProduct, InitStock>>]

StockSamples == {-1, 0, 1, 2}

AdminNext ==
    \/ Tick
    \/ \E productID \in ProductIDs : \E stock \in StockSamples :
         \E down \in {"", "exec", "exists"} : InitSeckill(productID, stock, down)
    \/ \E down \in {"", "product", "stock"} : GetCurrentSeckillCall(down)
    \/ \E down \in BOOLEAN : ClearSeckill(down)
    \/ \E uid \in Users : Purchase(uid)
    \/ \E p \in Procs : ReadGroup(p)
    \/ \E p \in Procs : ReadNoGroup(p)
    \/ \E l \in Loops : Handle(l)
    \/ \E l \in Loops : Ack(l)

AdminSpec == AdminInit /\ [][AdminNext]_vars

\* the loops of the running server are scheduled
AdminFairSpec ==
    /\ AdminSpec
    /\ \A p \in Procs : WF_vars(ReadGroup(p)) /\ WF_vars(ReadNoGroup(p))
    /\ \A l \in Loops : WF_vars(Handle(l)) /\ WF_vars(Ack(l))

\* ------------------------------------------------------- Start and Stop
DeadlineExceeded == "context deadline exceeded"

\* what XGroupCreateMkStream answers: the group was created, it exists
\* already, or another error
GroupAnswers == {"created", "BUSYGROUP", "error"}

\* a group creation that takes every answer but "created" for an error
ensureGroupStrict(answer) == IF answer = "created" THEN Nil ELSE "group error"

\* ensureGroup: BUSYGROUP is not an error
ensureGroup(answer) == IF answer = "error" THEN "group error" ELSE Nil

\* Start: it fails with no goroutine when the handler is nil or ensureGroup
\* fails; otherwise s.cancel is set and both goroutines start (claimIdle is
\* 10 s > 0)
SrvStart ==
    /\ srv.startRes = "none"
    /\ srv.stop = "none"
    /\ srv' = IF srv.handler = "nil"
              THEN [srv EXCEPT !.startRes = "seckill handler is nil"]
              ELSE IF ensureGroup(srv.group) # Nil
              THEN [srv EXCEPT !.startRes = ensureGroup(srv.group)]
              ELSE [srv EXCEPT !.startRes = Nil, !.started = TRUE,
                               !.loop = [k \in LoopKinds |-> "head"]]
    /\ UNCHANGED <<pipeVars, mq, mint, aged, hs, sk, rng>>

\* a loop that never looks at its context
LoopHeadNoCheck(k) ==
    /\ srv.loop[k] = "head"
    /\ srv' = [srv EXCEPT !.loop[k] = "busy"]
    /\ UNCHANGED <<pipeVars, mq, mint, aged, hs, sk, rng>>

\* The select at the head of a loop. consumeLoop returns when runCtx is done
\* and goes into its body otherwise; reclaimLoop chooses between ctx.Done()
\* and ticker.C, so with both ready it may still go into its body.
LoopHead(k) ==
    /\ srv.loop[k] = "head"
    /\ \E to \in {"busy", "exited"} :
         /\ to = "exited" => srv.cancelled
         /\ (to = "busy" /\ k = "claim") => ~srv.cancelled
         /\ srv' = [srv EXCEPT !.loop[k] = to]
    /\ UNCHANGED <<pipeVars, mq, mint, aged, hs, sk, rng>>

\* the body of a loop runs to its end and the loop is back at its head
LoopBody(k) ==
    /\ srv.loop[k] = "busy"
    /\ srv' = [srv EXCEPT !.loop[k] = "head"]
    /\ UNCHANGED <<pipeVars, mq, mint, aged, hs, sk, rng>>

\* wg is zero: every goroutine Start added has returned
Joined == \A k \in LoopKinds : srv.loop[k] \in {"none", "exited"}

\* Stop up to its select: s.cancel() if Start set it, and the goroutine that
\* waits for wg is started
StopCall ==
    /\ srv.stop = "none"
    /\ srv' = [srv EXCEPT !.stop = "waiting", !.cancelled = srv.started]
    /\ UNCHANGED <<pipeVars, mq, mint, aged, hs, sk, rng>>

\* the deadline of the context given to Stop passes; `expired` keeps whether
\* the loops had joined by then
Expire ==
    /\ srv.stop = "waiting"
    /\ srv.expired = "no"
    /\ srv' = [srv EXCEPT !.expired = IF Joined THEN "after join" ELSE "before join"]
    /\ UNCHANGED <<pipeVars, mq, mint, aged, hs, sk, rng>>

\* the goroutine of Stop: s.wg.Wait() returns and done is closed
Waiter ==
    /\ srv.stop # "none"
    /\ ~srv.done
    /\ Joined
    /\ srv' = [srv EXCEPT !.done = TRUE]
    /\ UNCHANGED <<pipeVars, mq, mint, aged, hs, sk, rng>>

\* a Stop that gives up at the deadline and reports success
StopReturnsNilAtDeadline(done, expired) == IF done \/ expired # "no" THEN {Nil} ELSE {}

\* a Stop that waits for the loops whatever its context says
StopIgnoresDeadline(done, expired) == IF done THEN {Nil} ELSE {}

\* the cases of Stop's select that are ready, as the values Stop returns; with
\* both ready the select takes either
StopResults(done, expired) ==
    (IF done THEN {Nil} ELSE {}) \cup (IF expired # "no" THEN {DeadlineExceeded} ELSE {})

StopReturn ==
    /\ srv.stop = "waiting"
    /\ \E res \in StopResults(srv.done, srv.expired) :
         srv' = [srv EXCEPT !.stop = "returned", !.res = res]
    /\ UNCHANGED <<pipeVars, mq, mint, aged, hs, sk, rng>>

\* every handler and every answer of Redis to the group creation
LifecycleInit ==
    /\ PipelineAtRest
    /\ mq = NoMQ
    /\ mint = NoMint
    /\ srv \in {[NoSrv EXCEPT !.handler = h, !.group = g] :
                   h \in {"set", "nil"}, g \in GroupAnswers}
    /\ aged = {}
    /\ sk = NoSeckill
    /\ rng = NoRng
    /\ hs = NoHash

LifecycleNext ==
    \/ SrvStart
    \/ \E k \in LoopKinds : LoopHead(k)
    \/ \E k \in LoopKinds : LoopBody(k)
    \/ StopCall
    \/ Expire
    \/ Waiter
    \/ StopReturn

LifecycleSpec == LifecycleInit /\ [][LifecycleNext]_vars

\* the ctx.Done() case of a loop's select: the goroutine returns
LoopExit(k) == LoopHead(k) /\ srv'.loop[k] = "exited"

\* Every call in a loop's body returns (XReadGroup within its Block of 2 s),
\* and a select whose ctx.Done() case is ready again and again takes it in
\* the end: Go chooses uniformly among the ready cases.
LifecycleFairness ==
    \A k \in LoopKinds : WF_vars(LoopBody(k)) /\ SF_vars(LoopExit(k))

LifecycleFairSpec == LifecycleSpec /\ LifecycleFairness

\* ------------------------------------------- the loops while Stop is called
ContextCanceled == "context canceled"

\* the server after a successful Start
Running == [NoSrv EXCEPT !.startRes = Nil, !.started = TRUE,
                         !.loop = [k \in LoopKinds |-> "head"]]

\* HandleSeckillOrder called with a cancelled runCtx: the context goes down
\* to db.WithContext(ctx), so the store call returns ctx.Err() and the commit
\* stops before its insert
CommitCancelled ==
    [err |-> ContextCanceled, rows |-> orders, events |-> published, order |-> {}]

\* the handler runs while runCtx is cancelled (Stop was called after the loop
\* took the message) and its store call is aborted
HandleCancelled(l) ==
    /\ srv.cancelled
    /\ th[l].pc = "handle"
    /\ LET e == Head(th[l].batch)
           uid == Sprint(stream[e].uid)
           c == CommitCancelled
       IN  /\ ~MissingUid(uid)
           /\ orders' = c.rows
           /\ published' = c.events
           /\ th' = [th EXCEPT ![l] = AfterHandler(th[l], HandlerResult(usecase, c.err))]
    /\ UNCHANGED <<now, redisVars, cfgVars, sideVars, start, apiVars, faults>>

\* XAck(ctx, ...) with a cancelled runCtx: the command is not sent, the error
\* is logged and the loop goes on
AckCancelled(l) ==
    /\ srv.cancelled
    /\ th[l].pc = "ack"
    /\ th' = [th EXCEPT ![l] = NextEntry(th[l])]
    /\ UNCHANGED <<now, redisVars, orders, published, cfgVars, sideVars, start, apiVars,
                   faults>>

\* a started server with nothing in the stream
ShutdownInit ==
    /\ PipelineIdle
    /\ usecase \in {"instance", "order"}
    /\ srvProduct \in DOMAIN Catalog
    /\ mqMode \in {"healthy", "noop"}
    /\ mq = NoMQ
    /\ mint = NoMint
    /\ srv = Running
    /\ aged = {}
    /\ sk = NoSeckill
    /\ rng = NoRng
    /\ hs = NoHash

\* XReadGroup and XAutoClaim with a cancelled context return its error, so no
\* message is taken after the cancellation
ReadRunning(p) == ~srv.cancelled /\ XReadGroup(p)

ClaimRunning(p, idle) == ~srv.cancelled /\ XAutoClaim(p, idle)

ShutdownNext ==
    \/ \E uid \in UidFields : Admit(uid)
    \/ \E p \in Procs : ReadRunning(p)
    \/ \E p \in Procs : \E idle \in SUBSET pel : ClaimRunning(p, idle)
    \/ \E l \in Loops : Handle(l)
    \/ \E l \in Loops : Ack(l)
    \/ StopCall
    \/ \E l \in Loops : HandleCancelled(l)
    \/ \E l \in Loops : AckCancelled(l)

ShutdownSpec == ShutdownInit /\ [][ShutdownNext]_vars

\* Both loops of every process keep running, and an entry that stays pending
\* is idle for MinIdle again and again. Failures are finite: `faults` runs out.
Fairness ==
    /\ \A p \in Procs : WF_vars(XReadGroup(p))
    /\ \A l \in Loops : WF_vars(Handle(l)) /\ WF_vars(Ack(l))
    /\ \A p \in Procs : \A e \in 1..MaxEntries :
          SF_vars(\E idle \in SUBSET pel : e \in idle /\ XAutoClaim(p, idle))

\* every purchase is appended once, and the consumers run
FairNext == Tick \/ (\E uid \in UidFields : Admit(uid)) \/ ConsumerNext

FairSpec == Init /\ [][FairNext]_vars /\ Fairness

\* ------------------------------------------------------------ properties
\* entry e carries a userID the loops accept
ValidEntry(e) == e \in 1..Len(stream) /\ ~MissingUid(Sprint(stream[e].uid))

\* the rows of one (productID, requestSequence)
RowsOf(pid, req) == {o \in orders : o.ProductID = pid /\ o.ReqID = req}

\* the distinct events published for one (productID, requestSequence)
EventsOf(pid, req) ==
    {ev \in BagToSet(published) : ev.ProductID = pid /\ ev.ReqID = req}

\* loop l is at step pc of its body for entry e
LoopAt(l, pc, e) ==
    th[l].pc = pc /\ Len(th[l].batch) > 0 /\ Head(th[l].batch) = e

Sellable(pid) ==
    pid \in DOMAIN Catalog /\ Catalog[pid].Status = "ENABLED" /\ Catalog[pid].Spec # {}

\* C1: every entry with a valid userID, for an enabled product that has a
\* specification, eventually has exactly one order row for its (productID,
\* derived requestSequence) and is eventually acknowledged, when failures are
\* finite and the loops keep running.
C1_EntryCommittedOnceAndAcked ==
    \A e \in 1..MaxEntries :
        (ValidEntry(e) /\ Sellable(srvProduct))
            ~> (Acked(e) /\ Cardinality(RowsOf(srvProduct, EntryReq(e))) = 1)

\* C2: in every reachable state there is at most one order row for each
\* (productID, requestSequence), whatever the consumers and the direct callers
\* did.
C2_OneRowPerProductReq ==
    \A o1 \in orders : \A o2 \in orders :
        (o1.ProductID = o2.ProductID /\ o1.ReqID = o2.ReqID) => o1 = o2

\* C2 happens: the claim loop and the reclaim loop have both committed one entry
\* and got success, and the entry has one row
C2_Witness ==
    \E e \in 1..MaxEntries : \E p \in Procs :
        /\ LoopAt(<<p, "claim">>, "ack", e)
        /\ LoopAt(<<p, "reclaim">>, "ack", e)
        /\ Cardinality(RowsOf(srvProduct, EntryReq(e))) = 1

\* C3: a second direct commit with the same (productID, userID, non-zero
\* requestSequence) as a committed order returns success and that order's
\* (orderID, resourceID). No failure is injected: faults = MaxFaults.
C3_SecondCommitReturnsSameIDs ==
    \A i \in 1..Len(api) : \A o \in orders :
        ( /\ faults = MaxFaults
          /\ api[i].args[3] # Zero64
          /\ o.ProductID = api[i].args[1]
          /\ o.UserID = api[i].args[2]
          /\ o.ReqID = api[i].args[3] )
        => /\ api[i].res.err = Nil
           /\ usecase = "order" =>
                /\ api[i].res.OrderID = o.OrderID
                /\ api[i].res.InstanceID = o.InstanceID

\* C4: a loop takes an entry off the pending list only from its XAck step for
\* that entry, which it reaches only with the handler's result nil for that
\* delivery; after an error the loop passes to the next message and the entry
\* stays pending.
C4_AckOnlyAfterSuccess ==
    [][ \A e \in 1..MaxEntries :
          (e \in pel /\ e \notin pel') =>
              \E l \in Loops : /\ LoopAt(l, "ack", e)
                               /\ th[l].res = Nil
                               /\ th'[l] = NextEntry(th[l]) ]_vars

\* C4 happens: with no failure injected and every loop back at its read, one
\* entry has been committed and acknowledged and another, whose commit returned
\* an error, is still pending
C4_Witness ==
    \E e \in 1..MaxEntries : \E f \in 1..MaxEntries :
        /\ ValidEntry(e) /\ Acked(e) /\ RowsOf(srvProduct, EntryReq(e)) # {}
        /\ ValidEntry(f) /\ f \in pel
        /\ faults = MaxFaults
        /\ \A l \in Loops : th[l].pc = "idle"

\* C5: once an entry is acknowledged and its order row exists, in healthy mode
\* the event carrying that row's resourceID has been published (a redelivery
\* publishes it before the entry is acknowledged).
C5_EventPublishedBeforeAck ==
    \A e \in 1..MaxEntries :
        (mqMode = "healthy" /\ ValidEntry(e) /\ Acked(e)) =>
            \A o \in RowsOf(srvProduct, EntryReq(e)) :
                \E ev \in BagToSet(published) : ev.InstanceID = o.InstanceID

\* C6: at most one event is ever published for each (productID,
\* requestSequence), however often and however concurrently the loops process
\* an entry.
C6_OneEventPerProductReq ==
    \A ev \in BagToSet(published) :
        /\ CopiesIn(ev, published) = 1
        /\ EventsOf(ev.ProductID, ev.ReqID) = {ev}

\* C6 happens: an entry already acknowledged by one loop has been processed
\* again, with success, by the reclaim loop, and its event is published
C6_Witness ==
    \E e \in 1..MaxEntries : \E p \in Procs :
        /\ mqMode = "healthy"
        /\ Acked(e)
        /\ LoopAt(<<p, "reclaim">>, "ack", e)
        /\ EventsOf(srvProduct, EntryReq(e)) # {}

\* the rows and the events of the entries that carry admission sequence req
RowsOfAdmission(req) ==
    {o \in orders : \E e \in 1..Len(stream) :
        /\ stream[e].req = req
        /\ ValidEntry(e)
        /\ o.ProductID = srvProduct /\ o.ReqID = EntryReq(e)}

EventsOfAdmission(req) ==
    {ev \in BagToSet(published) : \E e \in 1..Len(stream) :
        /\ stream[e].req = req
        /\ ValidEntry(e)
        /\ ev.ProductID = srvProduct /\ ev.ReqID = EntryReq(e)}

\* C7: two entries with distinct IDs and the same admission-assigned
\* requestSequence, both processed, leave exactly one order row and exactly one
\* published event.
C7_DuplicateDeliveryOneRowOneEvent ==
    \A e1 \in 1..MaxEntries : \A e2 \in 1..MaxEntries :
        ( /\ e1 # e2
          /\ ValidEntry(e1) /\ ValidEntry(e2)
          /\ stream[e1].req = stream[e2].req
          /\ Acked(e1) /\ Acked(e2)
          /\ mqMode = "healthy"
          /\ faults = MaxFaults )
        => /\ Cardinality(RowsOfAdmission(stream[e1].req)) = 1
           /\ Cardinality(EventsOfAdmission(stream[e1].req)) = 1

\* C8: an entry whose userID is missing or empty is acknowledged by the loop it
\* was delivered to: once no loop holds it any more it is not pending. No
\* failure is injected: faults = MaxFaults.
C8_MissingUidAcked ==
    \A e \in 1..Len(stream) :
        ( /\ MissingUid(Sprint(stream[e].uid))
          /\ e <= lastDelivered
          /\ faults = MaxFaults
          /\ \A l \in Loops : \A i \in 1..Len(th[l].batch) : th[l].batch[i] # e )
        => e \notin pel

\* no loop but l holds entry e in its batch
OnlyHeldBy(l, e) ==
    \A k \in Loops \ {l} : \A i \in 1..Len(th[k].batch) : th[k].batch[i] # e

\* C9: when the reclaim loop processes an entry whose order row is already
\* committed and that no other loop is working on, and nothing fails in that
\* redelivery, the loop goes on to acknowledge the entry.
C9_RedeliveryAfterCommitAcked ==
    [][ \A l \in Loops : \A e \in 1..MaxEntries :
          ( /\ l[2] = "reclaim"
            /\ LoopAt(l, "handle", e)
            /\ OnlyHeldBy(l, e)
            /\ ValidEntry(e)
            /\ RowsOf(srvProduct, EntryReq(e)) # {}
            /\ th'[l] # th[l]
            /\ faults' = faults )
          => th'[l].pc = "ack" ]_vars

\* C10: a commit for a product that is not ENABLED returns ErrProductDisabled
\* and leaves no order row and no event, on the direct path and on the stream
\* path.
C10_DisabledProductRejected ==
    /\ \A o \in orders : Catalog[o.ProductID].Status = "ENABLED"
    /\ \A ev \in BagToSet(published) : Catalog[ev.ProductID].Status = "ENABLED"
    /\ \A i \in 1..Len(api) :
          ( /\ faults = MaxFaults
            /\ api[i].args[1] \in DOMAIN Catalog
            /\ Catalog[api[i].args[1]].Status # "ENABLED" )
          => api[i].res.err = "ErrProductDisabled"

\* the errors of a commit that every later attempt meets again
PermanentErrors == {"record not found", "ErrProductDisabled", "product spec not found"}

\* the commit of entry e fails with a permanent error
RejectedForGood(e) ==
    /\ ValidEntry(e)
    /\ Prep(usecase, srvProduct, Sprint(stream[e].uid), EntryReq(e),
            now, now, now).err \in PermanentErrors

\* some loop has entry e in the batch it is working on
InBatch(e) == \E l \in Loops : \E i \in 1..Len(th[l].batch) : th[l].batch[i] = e

\* C11: an entry whose commit fails with a permanent error (unknown product,
\* disabled product, missing specification) is acknowledged and dropped: once
\* it was delivered and no loop is working on it, and nothing failed
\* transiently, it is no longer pending
C11_PermanentFailureAckedNotRetried ==
    \A e \in 1..Len(stream) :
        (RejectedForGood(e) /\ e <= lastDelivered /\ ~InBatch(e) /\ faults = MaxFaults)
            => e \notin pel

\* C12: in healthy mode a step that stores an order row without publishing its
\* event (the publish failed) keeps every row, returns an error to a direct
\* caller, and neither acknowledges an entry nor sends a loop on to XAck
C12_PublishFailureKeepsRowNoAck ==
    [][(mqMode = "healthy" /\ orders' # orders /\ published' = published)
          => /\ orders \subseteq orders'
             /\ pel' = pel
             /\ \A l \in Loops : th'[l] # th[l] => th'[l].pc # "ack"
             /\ calls' # calls => api'[1].res.err # Nil]_vars

\* a valid entry whose row is stored and whose event was not published is
\* still pending, after the one failure of the run, with every loop idle
C12_Witness ==
    /\ mqMode = "healthy"
    /\ faults < MaxFaults
    /\ published = EmptyBag
    /\ \A l \in Loops : th[l].pc = "idle"
    /\ \E e \in pel :
          ValidEntry(e) /\ RowsOf(srvProduct, EntryReq(e)) # {}

\* C14: with the no-op publisher a commit that stores its order row succeeds:
\* nothing reaches the broker, a direct caller gets a nil error, and the loop
\* that handled the entry goes on to XAck
C14_NoopPublishCommitSucceeds ==
    [][(mqMode = "noop" /\ orders' # orders)
          => /\ published' = EmptyBag
             /\ calls' # calls => api'[1].res.err = Nil
             /\ (calls' = calls /\ faults' = faults)
                   => \E l \in Loops : th[l].pc = "handle" /\ th'[l].pc = "ack"]_vars

\* in no-op mode an entry is acknowledged with its row stored and no event sent
C14_Witness ==
    /\ mqMode = "noop"
    /\ published = EmptyBag
    /\ \E e \in 1..Len(stream) :
          ValidEntry(e) /\ Acked(e) /\ RowsOf(srvProduct, EntryReq(e)) # {}

C18_StatusOnlyMovesForward ==
    [][\A o \in orders :
          \E n \in orders' :
             /\ n.OrderID = o.OrderID
             /\ \/ n.Status = o.Status
                \/ o.Status = "PAID" /\ n.Status \in {"COMPLETED", "CANCELLED"}]_vars

\* C15: constructing the publisher returns no error; it returns the real
\* publisher exactly when the configuration has a URL and the dial, the channel
\* open, the exchange declare, the queue declare and the queue bind all
\* succeeded, and the no-op publisher otherwise
C15_ConstructorNeverFails ==
    mq.publisher # "none"
        => /\ mq.err = Nil
           /\ mq.publisher \in {"noop", "real"}
           /\ mq.publisher = "real"
                 <=> (mq.cfg = "url"
                      /\ \A i \in 1..Len(SetupSteps) : SetupSteps[i] \in mq.ok)

\* with a URL configured and only the queue bind failing, the no-op publisher
\* was returned
C15_Witness ==
    /\ mq.cfg = "url"
    /\ mq.ok = {"dial", "channel", "exchange", "queue"}
    /\ mq.publisher = "noop"
    /\ mq.err = Nil

\* C16: no generator returns a negative value: the top bit of every minted
\* identifier is 0
C16_MintNeverNegative ==
    \A i \in 1..Len(mint.out) : ~IsNeg64(mint.out[i].id)

\* the low 3 bits of an identifier
Low3(id) == id[1] % 8

\* C17: over two consecutive calls of the instance-ID generator the low 3-bit
\* counter advances by one modulo 8
C17_CounterRotates ==
    \A i \in 1..(Len(mint.out) - 1) :
        (mint.out[i].gen = "instance" /\ mint.out[i + 1].gen = "instance")
            => Low3(mint.out[i + 1].id) = (Low3(mint.out[i].id) + 1) % 8

ClaimedByReclaim(e) ==
    \E p \in Procs :
        \E i \in 1..Len(th[<<p, "reclaim">>].batch) : th[<<p, "reclaim">>].batch[i] = e

\* C13: every entry that has stayed pending for the idle threshold, whoever it
\* was delivered to and whether or not that process crashed, is eventually
\* acknowledged or claimed by the reclaim loop of a running process: the
\* sweep cursor skips no pending entry for good
C13_IdleEntryEventuallyReclaimed ==
    \A e \in 1..MaxEntries :
        (e \in pel /\ e \in aged) ~> (e \notin pel \/ ClaimedByReclaim(e))

\* after a failure, the reclaim loop handles the second entry while the first
\* is still pending: the sweep went past the first entry
C13_Witness ==
    /\ faults < MaxFaults
    /\ {1, 2} \subseteq pel
    /\ \E p \in Procs :
          /\ LoopAt(<<p, "reclaim">>, "handle", 2)
          /\ th[<<p, "claim">>].pc = "idle"

\* C21: Stop returns nil only when both loops that Start launched have
\* exited, and after a nil return no loop of this server takes another step
\* (no entry is processed or acknowledged any more).
C21_NilStopAfterLoopsExited ==
    /\ [](srv.stop = "returned" /\ srv.res = Nil =>
            \A k \in LoopKinds : srv.loop[k] = IF srv.started THEN "exited" ELSE "none")
    /\ [][srv.stop = "returned" /\ srv.res = Nil => srv'.loop = srv.loop]_vars

C21_Witness ==
    /\ srv.started
    /\ srv.stop = "returned"
    /\ srv.res = Nil
    /\ \A k \in LoopKinds : srv.loop[k] = "exited"

\* C23: when the group exists already (BUSYGROUP) Start returns nil with
\* both loops launched; on any other error of the group creation Start
\* returns that error and no loop is launched.
C23_StartToleratesExistingGroup ==
    (srv.handler = "set" /\ srv.startRes # "none") =>
        /\ srv.group = "BUSYGROUP" =>
              /\ srv.startRes = Nil
              /\ srv.started
              /\ \A k \in LoopKinds : srv.loop[k] # "none"
        /\ srv.group = "error" =>
              /\ srv.startRes = "group error"
              /\ ~srv.started
              /\ \A k \in LoopKinds : srv.loop[k] = "none"

C23_Witness ==
    /\ srv.group = "BUSYGROUP"
    /\ srv.startRes = Nil
    /\ \A k \in LoopKinds : srv.loop[k] = "busy"

C22_InFlightCommitSurvivesCancel ==
    [][\A l \in Loops :
         (srv.cancelled /\ th'[l] # th[l] /\ faults' = faults) =>
            /\ th[l].pc = "ack" => Head(th[l].batch) \notin pel'
            /\ (th[l].pc = "handle" /\ ValidEntry(Head(th[l].batch))) =>
                 LET e == Head(th[l].batch)
                     c == Commit(srvProduct, Sprint(stream[e].uid), EntryReq(e), "")
                 IN  orders' = c.rows /\ published' = c.events]_vars

\* C24: a Commit for a productID that is not in the catalog returns
\* ErrProductNotFound while the store answers (read on CreateInstance, whose
\* repository is in the sources), and no order row and no event exist for
\* such a product.
C24_AbsentProductNotFound ==
    /\ \A o \in orders : o.ProductID \in DOMAIN Catalog
    /\ \A ev \in BagToSet(published) : ev.ProductID \in DOMAIN Catalog
    /\ \A i \in 1..Len(api) :
         (usecase = "instance" /\ api[i].args[1] \notin DOMAIN Catalog
            /\ api[i].res.err # "store unavailable") =>
             api[i].res.err = ErrProductNotFound

\* C25: an acknowledged entry with a valid userID has an order row for its
\* (productID, requestSequence): the handler reports "already exists" only
\* when that row exists, never for a store error with another cause.
C25_AckedEntryHasItsOrder ==
    \A e \in 1..Len(stream) :
        (ValidEntry(e) /\ Acked(e)) => RowsOf(srvProduct, EntryReq(e)) # {}

\* C26: the requestSequence derived from an entry ID is a function of the ID
\* and differs for different entry IDs.
C26_DistinctIDsDistinctSequences ==
    \A i \in 1..Len(hs.out) : \A j \in 1..Len(hs.out) :
        /\ hs.ids[i] = hs.ids[j] => hs.out[i] = hs.out[j]
        /\ hs.ids[i] # hs.ids[j] => hs.out[i] # hs.out[j]

\* C27: whatever happens to one entry of a batch (its commit fails, or it is
\* committed and acknowledged), the loop goes on to the next entry of the
\* batch: without a crash no loop drops the rest of its batch. So a later
\* entry can be acknowledged while an earlier one stays pending.
C27_BatchContinuesAfterFailure ==
    [][\A l \in Loops :
         (faults' = faults /\ Len(th[l].batch) > 1 /\ th'[l] # th[l]) =>
            \/ /\ th[l].pc = "handle"
               /\ th'[l].pc = "ack"
               /\ th'[l].batch = th[l].batch
            \/ /\ th'[l].pc = "handle"
               /\ th'[l].batch = Tail(th[l].batch)]_vars

\* entry 2 is acknowledged and entry 1, whose commit failed with no fault of
\* the store or the broker, is still pending
C27_Witness ==
    /\ faults = MaxFaults
    /\ ValidEntry(1) /\ ValidEntry(2)
    /\ \A l \in Loops : th[l].pc = "idle"
    /\ 1 \in pel
    /\ Acked(2)
    /\ RowsOf(srvProduct, EntryReq(1)) = {}
    /\ RowsOf(srvProduct, EntryReq(2)) # {}

\* C29: two calls of one generator with the same key within one millisecond
\* (no tick of the clock between them) return different identifiers.
C29_SameMillisecondMintsDiffer ==
    mint.ticks = 0 =>
        \A i \in 1..Len(mint.out) : \A j \in 1..Len(mint.out) :
            (i < j /\ mint.out[i].gen = mint.out[j].gen)
                => mint.out[i].id # mint.out[j].id

\* 2^45 - 1
Mask45 == <<65535, 65535, 8191, 0>>

\* the timestamp component of an identifier: the 46 bits above the 15 hash
\* bits of an order ID, the 45 bits between the 3 counter bits and the 15 hash
\* bits of an instance ID
TimeField(gen, id) ==
    IF gen = "order" THEN And64(Shr64(id, 15), Mask46)
    ELSE And64(Shr64(id, 3), Mask45)

\* the clock reading fits the timestamp component of the generator
FitsTimeField(gen, rel) ==
    LessEq64(rel, IF gen = "order" THEN Mask46 ELSE Mask45)

\* C30 as stated: over the calls of one generator, in call order, the
\* timestamp component never decreases (the clock of the model never does).
C30_TimeFieldNeverDecreases ==
    \A i \in 1..Len(mint.out) : \A j \in 1..Len(mint.out) :
        (i < j /\ mint.out[i].gen = mint.out[j].gen)
            => LessEq64(TimeField(mint.out[i].gen, mint.out[i].id),
                        TimeField(mint.out[j].gen, mint.out[j].id))

\* C30 amended: the same for calls whose clock readings are at or after the
\* epoch and fit the timestamp component (below 2^46 ms for order IDs, below
\* 2^45 ms for instance IDs).
C30_TimeFieldMonotoneInRange ==
    \A i \in 1..Len(mint.out) : \A j \in 1..Len(mint.out) :
        (/\ i < j
         /\ mint.out[i].gen = mint.out[j].gen
         /\ FitsTimeField(mint.out[i].gen, mint.out[i].at)
         /\ FitsTimeField(mint.out[j].gen, mint.out[j].at))
            => LessEq64(TimeField(mint.out[i].gen, mint.out[i].id),
                        TimeField(mint.out[j].gen, mint.out[j].id))

\* two calls of the instance generator one millisecond apart, the second at
\* the last reading that fits, with a larger timestamp component
C30_Witness ==
    /\ Len(mint.out) = 2
    /\ mint.out[1].gen = "instance" /\ mint.out[2].gen = "instance"
    /\ mint.out[2].at = Mask45
    /\ mint.out[1].at # mint.out[2].at
    /\ TimeField("instance", mint.out[1].id) # TimeField("instance", mint.out[2].id)
    /\ TimeField("instance", mint.out[2].id) = Mask45

\* C37: RandNBits(bits) returns a value of at most 2^bits - 1 for bits in
\* 1..63, and RandNBits(0) returns 0.
C37_RandNBitsInRange ==
    \A i \in 1..Len(rng.call) :
        LET c == rng.call[i]
        IN  c.op = "RandNBits" =>
              /\ c.args[1] = 0 => c.ret = Zero64
              /\ c.args[1] \in 1..63 =>
                    LessEq64(c.ret, Sub64(Shl64(I64(1), c.args[1]), I64(1)))

\* the second call on a generator is RandNBits(3) and returns a value that is
\* not 0
C37_Witness ==
    /\ rng.n = 2
    /\ rng.call[1].op = "RandNBits"
    /\ rng.call[1].args[1] = 3
    /\ rng.call[1].ret # Zero64
    /\ LessEq64(rng.call[1].ret, I64(7))

\* C38: RandRange(min, max) returns v with min <= v < max when min < max,
\* and min otherwise.
C38_RandRangeInRange ==
    \A i \in 1..Len(rng.call) :
        LET c == rng.call[i]
        IN  c.op = "RandRange" =>
              IF LessEq64(c.args[2], c.args[1])
              THEN c.ret = c.args[1]
              ELSE /\ LessEq64(c.args[1], c.ret)
                   /\ LessEq64(c.ret, c.args[2])
                   /\ c.ret # c.args[2]

\* RandRange(10, 20) has returned a value above 10
C38_Witness ==
    /\ Len(rng.call) = 1
    /\ rng.call[1].op = "RandRange"
    /\ rng.call[1].args = <<I64(10), I64(20)>>
    /\ rng.call[1].ret # I64(10)
    /\ LessEq64(I64(10), rng.call[1].ret)
    /\ LessEq64(rng.call[1].ret, I64(19))

\* C39: hashStreamID returns a non-negative int64 for every input, also when
\* the wrapped polynomial hash is the minimum int64.
C39_HashNeverNegative ==
    \A i \in 1..Len(hs.out) : ~IsNeg64(hs.out[i])

\* the step is a call of the admin RPC op
AdminStep(op) == sk'.calls = sk.calls + 1 /\ sk'.rpc[1].op = op

\* the seckill keys and the stream are as they were
KeysUnchanged ==
    /\ sk'.keys = sk.keys
    /\ stream' = stream
    /\ sk'.base = sk.base

\* the stream, its consumer group and its pending entries are as they were
StreamUnchanged ==
    /\ stream' = stream
    /\ sk'.base = sk.base
    /\ sk'.group = sk.group
    /\ pel' = pel
    /\ lastDelivered' = lastDelivered

\* C33: InitSeckill with stock <= 0 returns ErrInvalidStock and changes no
\* key of Redis; the RPC replies Success = false without a transport error.
C33_InvalidStockRejected ==
    [][(AdminStep("InitSeckill") /\ sk'.rpc[1].args[2] <= 0) =>
          /\ sk'.rpc[1].uerr = ErrInvalidStock
          /\ sk'.rpc[1].ret.err = Nil
          /\ sk'.rpc[1].ret.reply[1].Success = FALSE
          /\ KeysUnchanged
          /\ StreamUnchanged]_vars

\* InitSeckill with stock 0 was rejected while a seckill with sold stock, a
\* delivered and unacknowledged entry existed
C33_Witness ==
    /\ sk.rpc # <<>>
    /\ sk.rpc[1].op = "InitSeckill"
    /\ sk.rpc[1].args[2] = 0
    /\ sk.rpc[1].uerr = ErrInvalidStock
    /\ sk.keys["product"] = <<FormatInt(1001)>>
    /\ sk.keys["uid2req"] # {}
    /\ pel # {}

C34_GetAfterInit ==
    [][(AdminStep("GetCurrentSeckill") /\ sk.inited # <<>> /\ sk'.rpc[1].uerr # RedisDown) =>
          /\ sk'.rpc[1].uerr = Nil
          /\ sk'.rpc[1].ret =
                [err |-> Nil,
                 reply |-> <<[ProductId |-> sk.inited[1], Stock |-> sk.inited[2],
                              Active |-> TRUE]>>]]_vars

\* after a purchase of the first seckill, InitSeckill(2002, 1) succeeded and
\* GetCurrentSeckill has answered (2002, 1, active)
C34_Witness ==
    /\ sk.rpc # <<>>
    /\ sk.rpc[1].op = "GetCurrentSeckill"
    /\ sk.inited = <<2002, 1>>
    /\ Len(stream) > sk.base
    /\ sk.rpc[1].ret.reply = <<[ProductId |-> 2002, Stock |-> 1, Active |-> TRUE]>>

\* C35 as stated: after ClearSeckill, GetCurrentSeckill reports no active
\* seckill (ErrNoActiveSeckill from the usecase, active = false and no error
\* from the RPC) until the next InitSeckill that returns success.
C35_InactiveUntilSuccessfulInit ==
    [][(AdminStep("GetCurrentSeckill") /\ sk.cleared /\ sk'.rpc[1].uerr # RedisDown) =>
          /\ sk'.rpc[1].uerr = ErrNoActiveSeckill
          /\ sk'.rpc[1].ret =
                [err |-> Nil,
                 reply |-> <<[ProductId |-> 0, Stock |-> 0, Active |-> FALSE]>>]]_vars

\* C35: after ClearSeckill, GetCurrentSeckill reports no active seckill
\* until the next InitSeckill whose pipeline was executed, whether that
\* InitSeckill then returns success or not.
C35_InactiveUntilInitWrites ==
    [][(AdminStep("GetCurrentSeckill") /\ sk.wiped /\ sk'.rpc[1].uerr # RedisDown) =>
          /\ sk'.rpc[1].uerr = ErrNoActiveSeckill
          /\ sk'.rpc[1].ret =
                [err |-> Nil,
                 reply |-> <<[ProductId |-> 0, Stock |-> 0, Active |-> FALSE]>>]]_vars

\* after ClearSeckill and one more admin call, GetCurrentSeckill has reported
\* no active seckill
C35_Witness ==
    /\ sk.rpc # <<>>
    /\ sk.rpc[1].op = "GetCurrentSeckill"
    /\ sk.wiped
    /\ sk.calls = 3
    /\ sk.rpc[1].ret.reply = <<[ProductId |-> 0, Stock |-> 0, Active |-> FALSE]>>

\* C31: an order created from a stream entry carries the product that is
\* the current seckill product in Redis when the entry is processed, also
\* after InitSeckill has switched the product under a running server.
C31_OrdersCarryCurrentProduct ==
    [][\A o \in orders' \ orders :
          sk.keys["product"] # <<>> => o.ProductID = ParseInt(sk.keys["product"][1])]_vars

\* entry e is in stream:orders (it was not deleted with the stream)
Live(e) == e <= Len(stream) /\ e > sk.base

\* C32: an entry appended after ClearSeckill (which deleted the stream and
\* its consumer group) and the next InitSeckill is eventually delivered to
\* the claim loop of the server that kept running, unless a later
\* ClearSeckill deletes it.
C32_ReadsResumeAfterClear ==
    \A e \in 1..MaxEntries :
        (Live(e) /\ ~sk.group) ~> ((sk.group /\ e <= lastDelivered) \/ ~Live(e))

====
